---- MODULE Spec2Model ----
(***************************************************************************)
(* State-machine model of src/app.py: the Flask quiz platform with its    *)
(* sqlite tables `user` and `progress`, the cookie session of each client *)
(* and the request handlers.  A handler that touches the database more    *)
(* than once (register, update_progress) is split at the point where      *)
(* another request's statement can run in between: its SELECT is one      *)
(* step, its INSERT/UPDATE + commit the next.  Every other handler makes  *)
(* at most one database call and is one step.                             *)
(***************************************************************************)
EXTENDS Integers, Sequences, FiniteSets, TLC

VARIABLES
    user,        \* table user: set of rows [id, full_name, email, nickname, password]
    progress,    \* table progress: set of rows [id, user_id, subject, score]
    session,     \* session[t]: the dict carried by client token t
    worker,      \* worker[w]: the request a server thread is in the middle of
    last,        \* the response most recently sent: [op, token, status, body]
    updates,     \* history: how many update_progress requests passed the auth check
    reported,    \* history: the [user_id, subject, score] of the updates that completed
    registered,  \* history: the registrations that succeeded [nickname, password, id]
    logout_from, \* history: per token, the state logout() last cleared, if no login since
    relogin      \* history: per token, whether its login discarded another user's session

vars == <<user, progress, session, worker, last, updates, reported, registered, logout_from,
          relogin>>

(***************************************************************************)
(* Bounds of the model.                                                    *)
(***************************************************************************)
MaxWorkers == 2      \* requests that can be in the middle of a handler at once
MaxUpdates == 3      \* update_progress requests that get past the auth check
MaxFewUpdates == 1   \* the same, where the claims are about sign-up and sessions

Workers == 1..MaxWorkers

(***************************************************************************)
(* Request inputs.  The empty string stands for a missing or empty field. *)
(***************************************************************************)
Tokens    == {"t1", "t2"}
FullNames == {"", "Ann"}
Emails    == {"", "a@x", "b@x"}
Nicknames == {"", "ann", "bob"}
Passwords == {"", "pw1", "pw2"}
Salts     == {"s1", "s2"}
Scores    == {30, 50, 80}
Catalog   == {"math", "history"}
Subjects  == Catalog

\* The two sign-ups used where the claims are about progress, not about sign-up.
TwoUsers == {<<"Ann", "a@x", "ann", "pw1">>, <<"Bob", "b@x", "bob", "pw2">>}

(***************************************************************************)
(* Values.                                                                 *)
(***************************************************************************)
\* session.clear(): the dict with no key
EmptySession == [k \in {} |-> 0]

Idle == [pc |-> "idle"]

\* The client a response goes to, for the handlers that never look at the session.
AnyClient == "-"

Response(op, token, status, body) ==
    [op |-> op, token |-> token, status |-> status, body |-> body]

Max(S) == CHOOSE m \in S : \A x \in S : x <= m

\* id INTEGER PRIMARY KEY of a table nothing is ever deleted from
NextId(table) == IF table = {} THEN 1 ELSE Max({r.id : r \in table}) + 1

(***************************************************************************)
(* werkzeug.security.  The stored hash names its salt; the digest is a    *)
(* one-way function of (salt, password), taken here as collision free.    *)
(***************************************************************************)
Digest(salt, password) == <<"digest", salt, password>>

generate_password_hash(password, salt) ==
    [salt |-> salt, digest |-> Digest(salt, password)]

check_password_hash(pwhash, password) ==
    pwhash.digest = Digest(pwhash.salt, password)

(***************************************************************************)
(* The database.                                                           *)
(***************************************************************************)
\* cursor.fetchone(): None (the empty set) when no row matches, else one of the
\* matching rows; SQL leaves open which when the SELECT has no ORDER BY.
FetchOne(rows) == IF rows = {} THEN {{}} ELSE {{r} : r \in rows}

\* Variant: a table user without the UNIQUE columns.
UserUniqueNone(row) == TRUE

\* schema.sql: the columns nickname and email of table user are UNIQUE; an
\* INSERT that would repeat either raises sqlite3.IntegrityError.
UserUnique(row) ==
    \A u \in user : u.nickname /= row.nickname /\ u.email /= row.email

\* schema.sql: table progress(id, user_id, subject, score) carries no
\* constraint over (user_id, subject); every INSERT is accepted.
ProgressUnique(row) == TRUE

\* Variant: AND in place of OR.
UserExistsBoth(nickname, email) ==
    \E u \in user : u.nickname = nickname /\ u.email = email

\* SELECT id FROM user WHERE nickname = ? OR email = ?
UserExists(nickname, email) ==
    \E u \in user : u.nickname = nickname \/ u.email = email

\* Variant: the login handle looked up in the email column.
UsersByEmail(nickname) == {u \in user : u.email = nickname}

\* SELECT * FROM user WHERE nickname = ?
UsersByNickname(nickname) == {u \in user : u.nickname = nickname}

\* Variant: the SELECT without its user_id condition.
ExistingRowsAnyUser(user_id, subject) == {p \in progress : p.subject = subject}

\* SELECT id, score FROM progress WHERE user_id = ? AND subject = ?
ExistingRows(user_id, subject) ==
    {p \in progress : p.user_id = user_id /\ p.subject = subject}

\* Variant: the UPDATE without the comparison.
UpdateScoreAlways(table, existing, score) ==
    {IF p.id = existing.id THEN [p EXCEPT !.score = score] ELSE p : p \in table}

\* Variant: the comparison made by the UPDATE itself, against the row as it is
\* (UPDATE ... WHERE id = ? AND score < ?).
UpdateScoreAtomic(table, existing, score) ==
    {IF p.id = existing.id /\ score > p.score THEN [p EXCEPT !.score = score] ELSE p :
        p \in table}

\* Variant: the UPDATE made whenever the score differs from the one read.
UpdateScoreIfDifferent(table, existing, score) ==
    IF score /= existing.score
    THEN {IF p.id = existing.id THEN [p EXCEPT !.score = score] ELSE p : p \in table}
    ELSE table

\* if score > existing['score']: UPDATE progress SET score = ? WHERE id = ?
\* `existing` is the row the handler read in its earlier step.
UpdateScore(table, existing, score) ==
    IF score > existing.score
    THEN {IF p.id = existing.id THEN [p EXCEPT !.score = score] ELSE p : p \in table}
    ELSE table

\* INSERT INTO progress (user_id, subject, score) VALUES (?, ?, ?)
InsertProgress(table, user_id, subject, score) ==
    LET row == [id |-> NextId(table), user_id |-> user_id,
                subject |-> subject, score |-> score]
    IN  IF ProgressUnique(row) THEN table \cup {row} ELSE table

(***************************************************************************)
(* The session and the request threads.                                    *)
(***************************************************************************)
\* 'user_id' in session
LoggedIn(t) == "user_id" \in DOMAIN session[t]

FreeWorkers == {w \in Workers : worker[w] = Idle}

\* A new request is taken by the first thread that is free.
FreeWorker == CHOOSE w \in FreeWorkers : \A v \in FreeWorkers : w <= v

UpdatesInFlight == {w \in Workers : worker[w].pc = "update_write"}

\* An update_progress of the same user for the same subject is between its
\* SELECT and its commit.
PairBusy(t, subject) ==
    /\ LoggedIn(t)
    /\ \E w \in UpdatesInFlight :
          /\ worker[w].user_id = session[t].user_id
          /\ worker[w].subject = subject

(***************************************************************************)
(* Response bodies.                                                        *)
(***************************************************************************)
Success == [success |-> TRUE]

Failure(message) == [success |-> FALSE, message |-> message]

Unauthorized == [error |-> "Non autorise"]

\* An exception no handler catches: Flask answers 500 itself.
Uncaught(exception) == [uncaught |-> exception]

LoginError == Failure("Pseudo ou mot de passe incorrect.")

(***************************************************************************)
(* POST /api/register                                                      *)
(***************************************************************************)
\* all([full_name, email, nickname, password])
AllPresent(full_name, email, nickname, password) ==
    full_name /= "" /\ email /= "" /\ nickname /= "" /\ password /= ""

\* Variant: the duplicate check is made before the check of the fields.
RegisterBeginDuplicateFirst(full_name, email, nickname, password) ==
    /\ UNCHANGED <<user, progress, session, updates, reported, registered, logout_from, relogin>>
    /\ IF UserExists(nickname, email)
       THEN /\ last' = Response("register", AnyClient, 409,
                                Failure("Ce pseudo ou cet email est deja utilise."))
            /\ UNCHANGED worker
       ELSE IF ~AllPresent(full_name, email, nickname, password)
       THEN /\ last' = Response("register", AnyClient, 400, Failure("Tous les champs sont requis."))
            /\ UNCHANGED worker
       ELSE /\ FreeWorkers /= {}
            /\ worker' = [worker EXCEPT ![FreeWorker] =
                            [pc |-> "register_insert", full_name |-> full_name,
                             email |-> email, nickname |-> nickname,
                             password |-> password]]
            /\ UNCHANGED last

\* The handler up to and including its SELECT.
RegisterBegin(full_name, email, nickname, password) ==
    /\ UNCHANGED <<user, progress, session, updates, reported, registered, logout_from, relogin>>
    /\ IF ~AllPresent(full_name, email, nickname, password)
       THEN /\ last' = Response("register", AnyClient, 400, Failure("Tous les champs sont requis."))
            /\ UNCHANGED worker
       ELSE IF UserExists(nickname, email)
       THEN /\ last' = Response("register", AnyClient, 409,
                                Failure("Ce pseudo ou cet email est deja utilise."))
            /\ UNCHANGED worker
       ELSE /\ FreeWorkers /= {}
            /\ worker' = [worker EXCEPT ![FreeWorker] =
                            [pc |-> "register_insert", full_name |-> full_name,
                             email |-> email, nickname |-> nickname,
                             password |-> password]]
            /\ UNCHANGED last

\* Variant: a successful sign-up logs the new user in on the first client.
RegisterInsertLogsIn(w, salt) ==
    /\ worker[w].pc = "register_insert"
    /\ LET r   == worker[w]
           row == [id |-> NextId(user), full_name |-> r.full_name,
                   email |-> r.email, nickname |-> r.nickname,
                   password |-> generate_password_hash(r.password, salt)]
       IN  IF UserUnique(row)
           THEN /\ user' = user \cup {row}
                /\ registered' = registered \cup
                       {[nickname |-> r.nickname, password |-> r.password, id |-> row.id]}
                /\ session' = [session EXCEPT !["t1"] =
                                  [user_id |-> row.id, user_nickname |-> row.nickname]]
                /\ last' = Response("register", AnyClient, 200, Success)
           ELSE /\ UNCHANGED <<user, registered, session>>
                /\ last' = Response("register", AnyClient, 500, Uncaught("sqlite3.IntegrityError"))
    /\ worker' = [worker EXCEPT ![w] = Idle]
    /\ UNCHANGED <<progress, updates, reported, logout_from, relogin>>

\* generate_password_hash, the INSERT and the commit.
RegisterInsert(w, salt) ==
    /\ worker[w].pc = "register_insert"
    /\ LET r   == worker[w]
           row == [id |-> NextId(user), full_name |-> r.full_name,
                   email |-> r.email, nickname |-> r.nickname,
                   password |-> generate_password_hash(r.password, salt)]
       IN  IF UserUnique(row)
           THEN /\ user' = user \cup {row}
                /\ registered' = registered \cup
                       {[nickname |-> r.nickname, password |-> r.password, id |-> row.id]}
                /\ last' = Response("register", AnyClient, 200, Success)
           ELSE /\ UNCHANGED <<user, registered>>
                /\ last' = Response("register", AnyClient, 500, Uncaught("sqlite3.IntegrityError"))
    /\ worker' = [worker EXCEPT ![w] = Idle]
    /\ UNCHANGED <<progress, session, updates, reported, logout_from, relogin>>

(***************************************************************************)
(* POST /api/login, /api/logout, /api/check_session                        *)
(***************************************************************************)
\* Variant: an unknown nickname answered apart from a wrong password.
LoginEnumerating(t, nickname, password) ==
    /\ \E found \in FetchOne(UsersByNickname(nickname)) :
          IF \E u \in found : check_password_hash(u.password, password)
          THEN \E u \in found :
                  /\ session' = [session EXCEPT ![t] =
                                    [user_id |-> u.id, user_nickname |-> u.nickname]]
                  /\ logout_from' = [logout_from EXCEPT ![t] = "none"]
                  /\ relogin' = [relogin EXCEPT ![t] =
                                    LoggedIn(t) /\ session[t].user_id /= u.id]
                  /\ last' = Response("login", t, 200, Success)
          ELSE /\ last' = IF found = {}
                          THEN Response("login", t, 404, Failure("Pseudo inconnu."))
                          ELSE Response("login", t, 401, LoginError)
               /\ UNCHANGED <<session, logout_from, relogin>>
    /\ UNCHANGED <<user, progress, worker, updates, reported, registered>>

\* Variant: a login on a client that has a session leaves that session in place.
LoginKeepsIdentity(t, nickname, password) ==
    /\ \E found \in FetchOne(UsersByNickname(nickname)) :
          IF \E u \in found : check_password_hash(u.password, password)
          THEN \E u \in found :
                  /\ session' = [session EXCEPT ![t] =
                                    IF LoggedIn(t) THEN session[t]
                                    ELSE [user_id |-> u.id, user_nickname |-> u.nickname]]
                  /\ logout_from' = [logout_from EXCEPT ![t] = "none"]
                  /\ relogin' = [relogin EXCEPT ![t] =
                                    LoggedIn(t) /\ session[t].user_id /= u.id]
                  /\ last' = Response("login", t, 200, Success)
          ELSE /\ last' = Response("login", t, 401, LoginError)
               /\ UNCHANGED <<session, logout_from, relogin>>
    /\ UNCHANGED <<user, progress, worker, updates, reported, registered>>

\* Variant: session.clear() made before the credentials are checked.
LoginClearsFirst(t, nickname, password) ==
    /\ \E found \in FetchOne(UsersByNickname(nickname)) :
          IF \E u \in found : check_password_hash(u.password, password)
          THEN \E u \in found :
                  /\ session' = [session EXCEPT ![t] =
                                    [user_id |-> u.id, user_nickname |-> u.nickname]]
                  /\ logout_from' = [logout_from EXCEPT ![t] = "none"]
                  /\ relogin' = [relogin EXCEPT ![t] =
                                    LoggedIn(t) /\ session[t].user_id /= u.id]
                  /\ last' = Response("login", t, 200, Success)
          ELSE /\ last' = Response("login", t, 401, LoginError)
               /\ session' = [session EXCEPT ![t] = EmptySession]
               /\ UNCHANGED <<logout_from, relogin>>
    /\ UNCHANGED <<user, progress, worker, updates, reported, registered>>

Login(t, nickname, password) ==
    /\ \E found \in FetchOne(UsersByNickname(nickname)) :
          IF \E u \in found : check_password_hash(u.password, password)
          THEN \E u \in found :
                  /\ session' = [session EXCEPT ![t] =
                                    [user_id |-> u.id, user_nickname |-> u.nickname]]
                  /\ logout_from' = [logout_from EXCEPT ![t] = "none"]
                  /\ relogin' = [relogin EXCEPT ![t] =
                                    LoggedIn(t) /\ session[t].user_id /= u.id]
                  /\ last' = Response("login", t, 200, Success)
          ELSE /\ last' = Response("login", t, 401, LoginError)
               /\ UNCHANGED <<session, logout_from, relogin>>
    /\ UNCHANGED <<user, progress, worker, updates, reported, registered>>

\* Variant: only the cached nickname is dropped from the session.
LogoutKeepsId(t) ==
    /\ session' = [session EXCEPT ![t] =
                      [k \in DOMAIN session[t] \ {"user_nickname"} |-> session[t][k]]]
    /\ logout_from' = [logout_from EXCEPT ![t] =
                          IF LoggedIn(t) THEN "authenticated" ELSE "anonymous"]
    /\ relogin' = [relogin EXCEPT ![t] = FALSE]
    /\ last' = Response("logout", t, 200, Success)
    /\ UNCHANGED <<user, progress, worker, updates, reported, registered>>

Logout(t) ==
    /\ session' = [session EXCEPT ![t] = EmptySession]
    /\ logout_from' = [logout_from EXCEPT ![t] =
                          IF LoggedIn(t) THEN "authenticated" ELSE "anonymous"]
    /\ relogin' = [relogin EXCEPT ![t] = FALSE]
    /\ last' = Response("logout", t, 200, Success)
    /\ UNCHANGED <<user, progress, worker, updates, reported, registered>>

CheckSession(t) ==
    /\ last' = Response("check_session", t, 200, [logged_in |-> LoggedIn(t)])
    /\ UNCHANGED <<user, progress, session, worker, updates, reported, registered, logout_from, relogin>>

(***************************************************************************)
(* quizzes.json and the data endpoints.                                    *)
(***************************************************************************)
\* The catalog document: subject -> entry.  This one carries every field.
Quizzes ==
    [s \in Catalog |->
        [title |-> s, description |-> "d", emoji |-> "e", professor |-> "p",
         pdf_link |-> "l", questions |-> <<"q1", "q2">>]]

\* What open('quizzes.json') finds, per request.
FileStates == {"ok", "missing"}

get_all_courses_info ==
    [s \in DOMAIN Quizzes |->
        [title |-> Quizzes[s].title, description |-> Quizzes[s].description,
         emoji |-> Quizzes[s].emoji, professor |-> Quizzes[s].professor,
         pdf_link |-> Quizzes[s].pdf_link]]

\* {item['subject']: item['score'] for item in progress_data}: a later row of the
\* same subject overwrites an earlier one, and the SELECT has no ORDER BY.
ProgressDicts(user_id) ==
    LET rows == {p \in progress : p.user_id = user_id}
        subs == {p.subject : p \in rows}
    IN  {d \in [subs -> {p.score : p \in rows}] :
            \A s \in subs : \E p \in rows : p.subject = s /\ p.score = d[s]}

\* Variant: the profile looked up by the cached nickname in column full_name.
get_user_data_by_name(t) ==
    IF ~LoggedIn(t) THEN {{}}
    ELSE LET found == {u \in user : u.full_name = session[t].user_nickname}
         IN  IF found = {} THEN {{}}
             ELSE {{[id |-> u.id, fullName |-> u.full_name, email |-> u.email,
                     nickname |-> u.nickname, progress |-> d]} :
                      u \in found, d \in ProgressDicts(session[t].user_id)}

\* The results get_user_data() can return: None (the empty set) or one profile.
get_user_data(t) ==
    IF ~LoggedIn(t) THEN {{}}
    ELSE LET found == {u \in user : u.id = session[t].user_id}
         IN  IF found = {} THEN {{}}
             ELSE {{[id |-> u.id, fullName |-> u.full_name, email |-> u.email,
                     nickname |-> u.nickname, progress |-> d]} :
                      u \in found, d \in ProgressDicts(session[t].user_id)}

ReadOnly == UNCHANGED <<user, progress, session, worker, updates, reported, registered, logout_from, relogin>>

GetAppData(t, file) ==
    /\ ReadOnly
    /\ IF ~LoggedIn(t)
       THEN last' = Response("get_app_data", t, 401, Unauthorized)
       ELSE IF file /= "ok"
       THEN last' = Response("get_app_data", t, 500, Uncaught("FileNotFoundError"))
       ELSE \E info \in get_user_data(t) :
               last' = Response("get_app_data", t, 200,
                                [user |-> info, courses |-> get_all_courses_info])

GetCourses(file) ==
    /\ ReadOnly
    /\ IF file = "ok"
       THEN last' = Response("get_courses", AnyClient, 200, get_all_courses_info)
       ELSE last' = Response("get_courses", AnyClient, 500, [error |-> "Fichier de quiz non trouve"])

\* Variant: a subject that is not in the catalog gets an empty question list.
GetQuizEmptyList(t, subject, file) ==
    /\ ReadOnly
    /\ IF ~LoggedIn(t)
       THEN last' = Response("get_quiz", t, 401, Unauthorized)
       ELSE IF file /= "ok"
       THEN last' = Response("get_quiz", t, 500, [error |-> "Fichier de quiz non trouve"])
       ELSE IF subject \in DOMAIN Quizzes
       THEN last' = Response("get_quiz", t, 200, Quizzes[subject].questions)
       ELSE last' = Response("get_quiz", t, 200, << >>)

GetQuiz(t, subject, file) ==
    /\ ReadOnly
    /\ IF ~LoggedIn(t)
       THEN last' = Response("get_quiz", t, 401, Unauthorized)
       ELSE IF file /= "ok"
       THEN last' = Response("get_quiz", t, 500, [error |-> "Fichier de quiz non trouve"])
       ELSE IF subject \in DOMAIN Quizzes
       THEN last' = Response("get_quiz", t, 200, Quizzes[subject].questions)
       ELSE last' = Response("get_quiz", t, 404, [error |-> "Quiz non trouve"])

(***************************************************************************)
(* POST /api/progress                                                      *)
(***************************************************************************)
\* Variant: no auth check; a request without a session goes on with no user id.
UpdateProgressBeginNoAuth(t, subject, score) ==
    LET user_id == IF LoggedIn(t) THEN session[t].user_id ELSE 0
    IN  /\ UNCHANGED <<user, progress, session, reported, registered, logout_from, relogin>>
        /\ FreeWorkers /= {}
        /\ updates' = updates + 1
        /\ \E existing \in FetchOne(ExistingRows(user_id, subject)) :
              worker' = [worker EXCEPT ![FreeWorker] =
                            [pc |-> "update_write", token |-> t, user_id |-> user_id,
                             subject |-> subject, score |-> score,
                             existing |-> {[id |-> e.id, score |-> e.score] :
                                              e \in existing}]]
        /\ UNCHANGED last

\* The handler up to and including its SELECT.
UpdateProgressBegin(t, subject, score) ==
    /\ UNCHANGED <<user, progress, session, reported, registered, logout_from, relogin>>
    /\ IF ~LoggedIn(t)
       THEN /\ last' = Response("update_progress", t, 401, Unauthorized)
            /\ UNCHANGED <<worker, updates>>
       ELSE /\ FreeWorkers /= {}
            /\ updates' = updates + 1
            /\ \E existing \in FetchOne(ExistingRows(session[t].user_id, subject)) :
                  worker' = [worker EXCEPT ![FreeWorker] =
                                [pc |-> "update_write", token |-> t,
                                 user_id |-> session[t].user_id,
                                 subject |-> subject, score |-> score,
                                 existing |-> {[id |-> e.id, score |-> e.score] :
                                                  e \in existing}]]
            /\ UNCHANGED last

\* The UPDATE or the INSERT, and the commit.
UpdateProgressWrite(w) ==
    /\ worker[w].pc = "update_write"
    /\ LET r == worker[w]
       IN  /\ IF r.existing /= {}
              THEN \E e \in r.existing : progress' = UpdateScore(progress, e, r.score)
              ELSE progress' = InsertProgress(progress, r.user_id, r.subject, r.score)
           /\ reported' = reported \cup {[user_id |-> r.user_id,
                                          subject |-> r.subject, score |-> r.score]}
    /\ last' = Response("update_progress", worker[w].token, 200, Success)
    /\ worker' = [worker EXCEPT ![w] = Idle]
    /\ UNCHANGED <<user, session, updates, registered, logout_from, relogin>>

(***************************************************************************)
(* Specifications.                                                         *)
(***************************************************************************)
\* A freshly initialised database, no session, no request under way.
Init ==
    /\ user = {}
    /\ progress = {}
    /\ session = [t \in Tokens |-> EmptySession]
    /\ worker = [w \in Workers |-> Idle]
    /\ last = Response("none", AnyClient, 0, [none |-> TRUE])
    /\ updates = 0
    /\ reported = {}
    /\ registered = {}
    /\ logout_from = [t \in Tokens |-> "none"]
    /\ relogin = [t \in Tokens |-> FALSE]

\* One step of the server, the requests drawn from the input sets of `in`.
\* With in.serial, an update_progress for a (user, subject) starts only when
\* none for the same pair is under way; in.max_updates bounds the update_progress
\* requests made.
Step(in) ==
    \/ \E r \in in.regs : RegisterBegin(r[1], r[2], r[3], r[4])
    \/ \E w \in Workers, salt \in in.salts : RegisterInsert(w, salt)
    \/ \E t \in in.tokens, n \in in.nicknames, p \in in.passwords : Login(t, n, p)
    \/ \E t \in in.tokens : Logout(t)
    \/ \E t \in in.tokens : CheckSession(t)
    \/ \E t \in in.tokens, f \in in.files : GetAppData(t, f)
    \/ \E f \in in.files : GetCourses(f)
    \/ \E t \in in.tokens, s \in in.quizzes, f \in in.files : GetQuiz(t, s, f)
    \/ \E t \in in.tokens, s \in in.subjects, c \in in.scores :
          /\ LoggedIn(t) => updates < in.max_updates
          /\ in.serial => ~PairBusy(t, s)
          /\ UpdateProgressBegin(t, s, c)
    \/ \E w \in Workers : UpdateProgressWrite(w)

\* Sign-up with every field present or missing, every pairing of nickname and
\* email, on one client; one subject and one score.
SignupInputs ==
    [regs |-> FullNames \X Emails \X Nicknames \X {"", "pw1"},
     salts |-> Salts, tokens |-> {"t1"},
     nicknames |-> {"ann", "bob"}, passwords |-> {"pw1", "pw2"},
     files |-> {"ok"}, quizzes |-> {"math"},
     subjects |-> {"math"}, scores |-> {50}, serial |-> FALSE,
     max_updates |-> MaxFewUpdates]

NextSignup == Step(SignupInputs)

SpecSignup == Init /\ [][NextSignup]_vars

\* Two users on two clients, login over all its inputs, the catalog present
\* or missing, a subject in it and one that is not.
SessionInputs ==
    [regs |-> TwoUsers, salts |-> {"s1"}, tokens |-> Tokens,
     nicknames |-> Nicknames, passwords |-> Passwords,
     files |-> FileStates, quizzes |-> {"math", "unknown"},
     subjects |-> {"math"}, scores |-> {50}, serial |-> FALSE,
     max_updates |-> MaxFewUpdates]

Next == Step(SessionInputs)

Spec == Init /\ [][Next]_vars

\* One user on one client, one subject, every score.
ScoreInputs ==
    [regs |-> {<<"Ann", "a@x", "ann", "pw1">>}, salts |-> {"s1"}, tokens |-> {"t1"},
     nicknames |-> {"ann"}, passwords |-> {"pw1"},
     files |-> {"ok"}, quizzes |-> {"math"},
     subjects |-> {"math"}, scores |-> Scores, serial |-> TRUE,
     max_updates |-> MaxUpdates]

\* The updates of one (user, subject) run one at a time.
NextSerial == Step(ScoreInputs)

SpecSerial == Init /\ [][NextSerial]_vars

\* The same requests, their steps interleaved freely.
NextRace == Step([ScoreInputs EXCEPT !.serial = FALSE])

SpecRace == Init /\ [][NextRace]_vars

\* Two users, two subjects.
FrameInputs ==
    [regs |-> TwoUsers, salts |-> {"s1"}, tokens |-> {"t1"},
     nicknames |-> {"ann", "bob"}, passwords |-> {"pw1", "pw2"},
     files |-> {"ok"}, quizzes |-> {"math"},
     subjects |-> Subjects, scores |-> {50, 80}, serial |-> FALSE,
     max_updates |-> MaxUpdates]

NextFrame == Step(FrameInputs)

SpecFrame == Init /\ [][NextFrame]_vars

\* One user on one client, updates for a subject of the catalog and for one
\* that is not in it, the catalog present or missing.
CatalogInputs ==
    [regs |-> {<<"Ann", "a@x", "ann", "pw1">>}, salts |-> {"s1"}, tokens |-> {"t1"},
     nicknames |-> {"ann"}, passwords |-> {"pw1"},
     files |-> FileStates, quizzes |-> {"math", "unknown"},
     subjects |-> {"math", "unknown"}, scores |-> {50, 80}, serial |-> FALSE,
     max_updates |-> MaxUpdates]

NextCatalog == Step(CatalogInputs)

SpecCatalog == Init /\ [][NextCatalog]_vars

(***************************************************************************)
(* Properties.                                                             *)
(***************************************************************************)
StoredScores(user_id, subject) == {p.score : p \in ExistingRows(user_id, subject)}

ReportedScores(user_id, subject) ==
    {r.score : r \in {x \in reported : x.user_id = user_id /\ x.subject = subject}}

\* No row disappears, changes its owner or subject, or lowers its score.
ScoresNeverDecrease ==
    \A p \in progress : \E q \in progress' :
        /\ q.id = p.id /\ q.user_id = p.user_id /\ q.subject = p.subject
        /\ q.score >= p.score

\* The store holds, for every pair with a completed update, exactly the
\* largest score reported for it.
StoredIsBest ==
    \A r \in reported :
        StoredScores(r.user_id, r.subject) = {Max(ReportedScores(r.user_id, r.subject))}

\* C1: when the update_progress requests of a (user, subject) run one at a
\* time, the stored score of the pair is the maximum of the scores reported so
\* far, and no step lowers a stored score (50, 30, 80 leaves 50, 50, 80).
C1_SerialBestScore == [](StoredIsBest) /\ [][ScoresNeverDecrease]_vars

\* 30, 50 and 80 have all been reported for one pair and 80 is stored.
C1_Witness ==
    \E r \in reported :
        /\ ReportedScores(r.user_id, r.subject) = {30, 50, 80}
        /\ StoredScores(r.user_id, r.subject) = {80}
        /\ updates = 3

\* C2: the write step of an update decides by the score its own read step
\* saw: when the reported score beats that score the row is set to the
\* reported score, whatever the row holds by then, so of two racing updates
\* the last write wins.
C2_LastWriteWins ==
    [][\A w \in Workers :
          (UpdateProgressWrite(w) /\ worker[w].existing /= {}) =>
             \A e \in worker[w].existing :
                worker[w].score > e.score =>
                   \A q \in progress' : q.id = e.id => q.score = worker[w].score]_vars

\* A pair with a single record, every request finished, and a stored score
\* below the largest score reported for the pair.
C2_Witness ==
    /\ \A w \in Workers : worker[w] = Idle
    /\ \E p \in progress :
          /\ ExistingRows(p.user_id, p.subject) = {p}
          /\ ReportedScores(p.user_id, p.subject) /= {}
          /\ p.score < Max(ReportedScores(p.user_id, p.subject))

C4_UniqueNicknameAndEmail ==
    \A u, v \in user : (u.nickname = v.nickname \/ u.email = v.email) => u = v

\* Two sign-ups passed the existence check together and the second INSERT was
\* turned down.
C4_Witness ==
    /\ last = Response("register", AnyClient, 500, Uncaught("sqlite3.IntegrityError"))
    /\ user /= {}

\* Some User has this nickname or this email.
InUse(nickname, email) ==
    \E u \in user : u.nickname = nickname \/ u.email = email

\* A register request leaves table user as it is and no INSERT pending.
NothingInserted == user' = user /\ worker' = worker

\* C5 as stated: a register request whose nickname or email is in use ends
\* with 409 and inserts nothing, whatever its other fields.
C5_AlwaysConflict ==
    [][\A r \in SignupInputs.regs :
          (InUse(r[3], r[2]) /\ RegisterBegin(r[1], r[2], r[3], r[4])) =>
             (last'.status = 409 /\ NothingInserted)]_vars

\* C5 amended: with its four fields present, a register request whose
\* nickname or email is in use ends with 409; with a field missing it ends with
\* 400; either way it inserts nothing.
C5_ConflictWhenComplete ==
    [][\A r \in SignupInputs.regs :
          (InUse(r[3], r[2]) /\ RegisterBegin(r[1], r[2], r[3], r[4])) =>
             /\ NothingInserted
             /\ last'.op = "register"
             /\ last'.status = IF AllPresent(r[1], r[2], r[3], r[4]) THEN 409 ELSE 400]_vars

\* A sign-up was answered 409 with both nicknames taken.
C5_Witness ==
    /\ last.op = "register" /\ last.status = 409
    /\ Cardinality(user) = 2

\* login fails for nickname and password: no such user, or the password does
\* not verify.
UnknownNickname(nickname) == \A u \in user : u.nickname /= nickname

WrongPassword(nickname, password) ==
    /\ \E u \in user : u.nickname = nickname
    /\ \A u \in user :
          u.nickname = nickname => ~check_password_hash(u.password, password)

\* C6: a login that fails because the nickname is unknown and one that fails
\* because the password is wrong get the same response, 401 with the one
\* message, and both leave every session as it was.
C6_SameLoginFailure ==
    [][\A t \in Tokens, n \in Nicknames, p \in Passwords :
          ((UnknownNickname(n) \/ WrongPassword(n, p)) /\ Login(t, n, p)) =>
             /\ last' = Response("login", t, 401, LoginError)
             /\ session' = session]_vars

\* A login failed on a client that is logged in, with both users signed up.
C6_Witness ==
    /\ last.op = "login" /\ last.status = 401
    /\ LoggedIn(last.token)
    /\ Cardinality(user) = 2

\* Every successful sign-up still has its row, and its password verifies.
RegisteredCanLogin ==
    \A g \in registered :
        /\ UsersByNickname(g.nickname) /= {}
        /\ \A u \in UsersByNickname(g.nickname) :
              u.id = g.id /\ check_password_hash(u.password, g.password)

\* C7: once register(n, p) has succeeded, in every later state a login with
\* (n, p) on any client succeeds and binds the client to the id of the user
\* that registration created.
C7_LoginAfterRegister ==
    /\ [](RegisteredCanLogin)
    /\ [][\A g \in registered, t \in Tokens :
             Login(t, g.nickname, g.password) =>
                /\ last' = Response("login", t, 200, Success)
                /\ session'[t] = [user_id |-> g.id, user_nickname |-> g.nickname]]_vars

\* The second user has logged in on the second client after progress was
\* stored and the first client had logged out.
C7_Witness ==
    /\ last = Response("login", "t2", 200, Success)
    /\ \E g \in registered :
          g.id = 2 /\ session["t2"] = [user_id |-> g.id, user_nickname |-> g.nickname]
    /\ progress /= {}
    /\ logout_from["t1"] = "authenticated"

\* C8: from a logout on a client until the next successful login on it, the
\* client has no session, check_session answers logged_in false, and /api/data
\* and /api/quiz/<subject> answer 401.
C8_LoggedOutStaysOut ==
    \A t \in Tokens :
        logout_from[t] /= "none" =>
           /\ session[t] = EmptySession
           /\ last.token = t =>
                 /\ last.op = "check_session" => last.body = [logged_in |-> FALSE]
                 /\ last.op \in {"get_app_data", "get_quiz"} =>
                       last.status = 401 /\ last.body = Unauthorized

\* /api/quiz answered 401 on a client that logged out of a session, while the
\* other client is logged in.
C8_Witness ==
    /\ logout_from["t1"] = "authenticated"
    /\ last = Response("get_quiz", "t1", 401, Unauthorized)
    /\ LoggedIn("t2")

\* C9: update_progress on a client with no session answers 401 and changes
\* neither the progress table nor any request under way.
C9_AnonymousUpdateRejected ==
    [][\A t \in Tokens, s \in Subjects, c \in Scores :
          (UpdateProgressBegin(t, s, c) /\ ~LoggedIn(t)) =>
             /\ last' = Response("update_progress", t, 401, Unauthorized)
             /\ progress' = progress
             /\ worker' = worker]_vars

\* An update was answered 401 while the table holds a record.
C9_Witness ==
    /\ last = Response("update_progress", "t1", 401, Unauthorized)
    /\ progress /= {}

UserIds == {u.id : u \in user}

\* C10: the write of an update by user A for subject s leaves every row of
\* another user or another subject as it was and adds rows only for (A, s), so
\* the progress map /api/data gives any other user is unchanged; the read step
\* changes no row.
C10_OnlyOwnRecord ==
    [][/\ \A w \in Workers :
             UpdateProgressWrite(w) =>
                /\ \A p \in progress :
                      (p.user_id /= worker[w].user_id \/ p.subject /= worker[w].subject)
                         => p \in progress'
                /\ \A q \in progress' \ progress :
                      q.user_id = worker[w].user_id /\ q.subject = worker[w].subject
                /\ \A b \in UserIds \ {worker[w].user_id} :
                      ProgressDicts(b)' = ProgressDicts(b)
       /\ \A t \in Tokens, s \in Subjects, c \in Scores :
             UpdateProgressBegin(t, s, c) => progress' = progress]_vars

\* An update has just been written while another user holds a record and the
\* writer holds records for two subjects.
C10_Witness ==
    /\ last.op = "update_progress" /\ last.status = 200
    /\ \E p, q, r \in progress :
          /\ p.user_id /= q.user_id
          /\ q.user_id = r.user_id /\ q.subject /= r.subject

\* C11: whenever an endpoint that reads the catalog answers 500, the answer is
\* the handler's own structured error body; no exception leaves a handler.
C11_CatalogFailureHandled ==
    (last.op \in {"get_courses", "get_quiz", "get_app_data"} /\ last.status = 500)
       => last.body = [error |-> "Fichier de quiz non trouve"]

\* What /api/quiz/<subject> is to answer on client t with the catalog in state
\* file, by the order of the checks.
QuizOutcome(t, subject, file) ==
    IF ~LoggedIn(t) THEN Response("get_quiz", t, 401, Unauthorized)
    ELSE IF file = "missing"
    THEN Response("get_quiz", t, 500, [error |-> "Fichier de quiz non trouve"])
    ELSE IF subject \notin Catalog
    THEN Response("get_quiz", t, 404, [error |-> "Quiz non trouve"])
    ELSE Response("get_quiz", t, 200, <<"q1", "q2">>)

\* C12: /api/quiz/<subject> answers 401 on a client with no session whatever
\* the subject and the catalog file; else 500 when the catalog cannot be read;
\* else 404, never an empty list, for a subject that is not a catalog key; else
\* the questions of the subject in their order.
C12_QuizChecksInOrder ==
    [][\A t \in Tokens, s \in SessionInputs.quizzes, f \in FileStates :
          GetQuiz(t, s, f) => last' = QuizOutcome(t, s, f)]_vars

\* A logged-in client asked for a subject that is not in the catalog and got
\* 404.
C12_Witness ==
    /\ last.op = "get_quiz" /\ last.status = 404
    /\ last.token \in Tokens /\ LoggedIn(last.token)

\* C13: no step of a register request, whether it ends in 200, 400, 409 or
\* 500, changes the session of any client: a client without a session does not
\* get one and a logged-in client stays logged in as the same user.
C13_RegisterKeepsSessions ==
    [][/\ \A r \in SignupInputs.regs :
             RegisterBegin(r[1], r[2], r[3], r[4]) => session' = session
       /\ \A w \in Workers, salt \in Salts :
             RegisterInsert(w, salt) => session' = session]_vars

\* A second sign-up succeeded while the first user is logged in on a client
\* and the other client has no session.
C13_Witness ==
    /\ last.op = "register" /\ last.status = 200
    /\ Cardinality(user) = 2
    /\ session["t1"] = [user_id |-> 1, user_nickname |-> "ann"]
    /\ ~LoggedIn("t2")

\* A client has no session, or its session is exactly the id and the nickname
\* of one row of table user.
SessionWellFormed ==
    \A t \in Tokens :
        \/ session[t] = EmptySession
        \/ /\ DOMAIN session[t] = {"user_id", "user_nickname"}
           /\ \E u \in user :
                 /\ session[t] = [user_id |-> u.id, user_nickname |-> u.nickname]
                 /\ \A v \in user : v.id = u.id => v = u

\* The rows a login with this nickname and password can succeed for.
Presented(nickname, password) ==
    {u \in user : u.nickname = nickname /\ check_password_hash(u.password, password)}

\* C14: every client either has no session or is logged in as exactly one
\* user, the cached nickname being that user's; a successful login, on a client
\* with or without a session, leaves the client bound to the id and nickname of
\* the user whose nickname and password were given and to nothing else, so
\* logging in as another user replaces the identity.
C14_OneIdentityPerToken ==
    /\ [](SessionWellFormed)
    /\ [][\A t \in Tokens, n \in Nicknames, p \in Passwords :
             (Login(t, n, p) /\ last'.status = 200) =>
                \E u \in Presented(n, p) :
                   session'[t] = [user_id |-> u.id, user_nickname |-> u.nickname]]_vars

\* A client that was logged in as the first user has just logged in as the
\* second, without a logout in between.
C14_Witness ==
    /\ last = Response("login", "t1", 200, Success)
    /\ session["t1"] = [user_id |-> 2, user_nickname |-> "bob"]
    /\ session["t2"] = [user_id |-> 1, user_nickname |-> "ann"]
    /\ relogin["t1"]

\* One of the four fields of a sign-up is missing or empty.
FieldMissing(r) == \E i \in 1..4 : r[i] = ""

\* C15: a register request with one of fullName, email, nickname, password
\* missing or empty ends with 400 and inserts no row, and does so also when its
\* nickname or its email is in use: the field check comes before the duplicate
\* check.
C15_MissingFieldRejectedFirst ==
    [][\A r \in SignupInputs.regs :
          (FieldMissing(r) /\ RegisterBegin(r[1], r[2], r[3], r[4])) =>
             /\ last' = Response("register", AnyClient, 400,
                                 Failure("Tous les champs sont requis."))
             /\ NothingInserted]_vars

\* A sign-up was answered 400 while both nicknames and both emails are those
\* of users.
C15_Witness ==
    /\ last.op = "register" /\ last.status = 400
    /\ Cardinality(user) = 2

\* C16: the write step of an update whose SELECT found a record, with a score
\* equal to or lower than the score found, answers 200 success and leaves the
\* whole progress table as it was; the score of a row changes only in the write
\* step of an update whose score is strictly greater than the score it found,
\* and becomes that score.
C16_NoOpUnlessGreater ==
    [][/\ \A w \in Workers :
             UpdateProgressWrite(w) =>
                \A e \in worker[w].existing :
                   worker[w].score <= e.score =>
                      /\ progress' = progress
                      /\ last' = Response("update_progress", worker[w].token, 200, Success)
       /\ \A p \in progress, q \in progress' :
             (q.id = p.id /\ q.score /= p.score) =>
                \E w \in Workers :
                   /\ UpdateProgressWrite(w)
                   /\ \E e \in worker[w].existing :
                         e.id = p.id /\ worker[w].score > e.score /\ q.score = worker[w].score]_vars

\* Two updates of one pair have completed, both with score 50: the first
\* inserted the one row there is, the second found it and changed nothing.
C16_Witness ==
    /\ last.op = "update_progress" /\ last.status = 200
    /\ updates = 2
    /\ \A w \in Workers : worker[w] = Idle
    /\ reported = {[user_id |-> 1, subject |-> "math", score |-> 50]}
    /\ progress = {[id |-> 1, user_id |-> 1, subject |-> "math", score |-> 50]}

\* C17: the subject of every row of table progress is a key of the catalog, so
\* an update that names a subject outside the catalog creates no row.
C17_SubjectsInCatalog ==
    \A p \in progress : p.subject \in Catalog

\* C18: a login that fails, for an unknown nickname or for a wrong password,
\* leaves the session of its client as it was, logged in as the same user or
\* not logged in; the session of a client changes only in a login that
\* succeeds on it or in a logout on it.
C18_FailedLoginKeepsBinding ==
    [][/\ \A t \in Tokens, n \in Nicknames, p \in Passwords :
             (Login(t, n, p) /\ (UnknownNickname(n) \/ WrongPassword(n, p))) =>
                session'[t] = session[t]
       /\ \A t \in Tokens :
             session'[t] /= session[t] =>
                \/ Logout(t)
                \/ /\ last' = Response("login", t, 200, Success)
                   /\ \E n \in Nicknames, p \in Passwords : Login(t, n, p)]_vars

\* A login has just failed on a client that is logged in as the first user,
\* the second user being signed up and the other client not logged in.
C18_Witness ==
    /\ last = Response("login", "t1", 401, LoginError)
    /\ session["t1"] = [user_id |-> 1, user_nickname |-> "ann"]
    /\ \E u \in user : u.nickname = "bob"
    /\ ~LoggedIn("t2")

\* C19: the user id in the session of every logged-in client and the user id
\* of every row of table progress is the id of a row of table user, so the
\* profile /api/data gives a logged-in client is never null.
C19_IdsReferToUsers ==
    /\ \A t \in Tokens : LoggedIn(t) => session[t].user_id \in UserIds
    /\ \A p \in progress : p.user_id \in UserIds
    /\ (last.op = "get_app_data" /\ last.status = 200) => last.body.user /= {}

\* /api/data has just given the second user, logged in on the second client,
\* a profile, while the first user holds a progress row.
C19_Witness ==
    /\ last.op = "get_app_data" /\ last.status = 200 /\ last.token = "t2"
    /\ \E info \in last.body.user : info.id = 2
    /\ \E p \in progress : p.user_id = 1

====
